---------------------------- MODULE Spec2Model ----------------------------
(***************************************************************************)
(* Model of main.py: the news pipeline that queries a feed per keyword,    *)
(* keeps the entries that mention Paraíba, and merges them into a CSV      *)
(* store, plus its pure helpers classify_by_keywords and                   *)
(* extract_names_heuristic.                                                *)
(*                                                                         *)
(* A Python str is a sequence of one-character strings, so that            *)
(* concatenation, lower(), strip(), slicing and the substring test `in`    *)
(* are computed, not assumed.                                              *)
(***************************************************************************)
EXTENDS Naturals, Sequences, FiniteSets

VARIABLES
    cfgFile,      \* keywords.json on disk
    store,        \* noticias_paraiba.csv on disk
    pc,           \* position of main(): "idle", "kw", "entry", "aborted"
    cfg,          \* what load_keywords() met in the current run
    existing,     \* main's `existing` data frame, as its sequence of rows
    rows,         \* main's `rows`
    seen_keys,    \* main's `seen_keys`
    kwi,          \* index of the keyword of the `for kw in keywords` loop
    entries,      \* what is left of `entries` in the `for e in entries` loop
    frozen,       \* the feed service answers the same in every run
    upstream,     \* when frozen: the feed it answers for each keyword
    runs,         \* runs of main() started so far
    store0,       \* the store as it was when the current run started
    fetchedFeed,  \* the current run has called fetch_rss_entries
    fetchedPage,  \* the current run has called extract_text_from_link
    wrote,        \* the current run has called save_csv
    clsText,      \* classify_by_keywords: its argument `text`
    clsOut,       \* classify_by_keywords: its return value
    clsDone,      \* classify_by_keywords has returned
    words,        \* extract_names_heuristic: `words`
    ni,           \* extract_names_heuristic: `i`
    nj,           \* extract_names_heuristic: `j`
    name_parts,   \* extract_names_heuristic: `name_parts`
    names,        \* extract_names_heuristic: `names`
    npc           \* extract_names_heuristic: "outer", "inner", "close", "done"

mainVars == <<cfgFile, store, pc, cfg, existing, rows, seen_keys, kwi, entries,
              frozen, upstream, runs, store0, fetchedFeed, fetchedPage, wrote>>
clsVars == <<clsText, clsOut, clsDone>>
nameVars == <<words, ni, nj, name_parts, names, npc>>
vars == <<mainVars, clsVars, nameVars>>

----------------------------------------------------------------------------
(* Bounds of the model. *)

MaxRuns == 2
MaxFeedLen == 1
MaxFrags == 2
MaxWords == 4

(* Constants of the program. *)

SEARCH_TOP == 10
SNIPPET_MAX == 800

----------------------------------------------------------------------------
(* Python str operations. *)

UpperChars == <<"A","B","C","D","E","F","G","H","I","J","K","L","M","N","O","P",
                "Q","R","S","T","U","V","W","X","Y","Z","Á","Ã","Ç","Í">>
LowerChars == <<"a","b","c","d","e","f","g","h","i","j","k","l","m","n","o","p",
                "q","r","s","t","u","v","w","x","y","z","á","ã","ç","í">>

IsUpperChar(c) == \E k \in 1..Len(UpperChars) : UpperChars[k] = c
IsLowerChar(c) == \E k \in 1..Len(LowerChars) : LowerChars[k] = c

LowerChar(c) ==
    IF IsUpperChar(c)
    THEN LowerChars[CHOOSE k \in 1..Len(UpperChars) : UpperChars[k] = c]
    ELSE c

UpperChar(c) ==
    IF IsLowerChar(c)
    THEN UpperChars[CHOOSE k \in 1..Len(LowerChars) : LowerChars[k] = c]
    ELSE c

\* str.lower()
Lower(s) == [k \in 1..Len(s) |-> LowerChar(s[k])]

\* str.upper()
Upper(s) == [k \in 1..Len(s) |-> UpperChar(s[k])]

\* `t in s` for two str
Contains(s, t) ==
    \E k \in 0..(Len(s) - Len(t)) : SubSeq(s, k + 1, k + Len(t)) = t

\* any(k in txt for k in ks)
ContainsAny(s, ks) == \E t \in ks : Contains(s, t)

IsSpace(c) == c \in {" ", "\n", "\t"}

\* str.strip()
Strip(s) ==
    IF \A k \in 1..Len(s) : IsSpace(s[k])
    THEN <<>>
    ELSE LET lo == CHOOSE a \in 1..Len(s) :
                       /\ ~IsSpace(s[a])
                       /\ \A k \in 1..(a - 1) : IsSpace(s[k])
             hi == CHOOSE b \in 1..Len(s) :
                       /\ ~IsSpace(s[b])
                       /\ \A k \in (b + 1)..Len(s) : IsSpace(s[k])
         IN  SubSeq(s, lo, hi)

\* s[:n]
Take(s, n) == SubSeq(s, 1, IF Len(s) < n THEN Len(s) ELSE n)

\* s.replace("\n", " ")
ReplaceNewlines(s) == [k \in 1..Len(s) |-> IF s[k] = "\n" THEN " " ELSE s[k]]

----------------------------------------------------------------------------
(* The CSV store as pandas reads and writes it. *)

\* The float nan pandas puts in a cell it reads as missing; no str equals it.
NaN == <<"float('nan')">>

\* The strings read_csv takes for a missing value (pandas' default na_values).
NAValues ==
    { <<>>,
      <<"n","a","n">>, <<"N","a","N">>, <<"N","A">>, <<"N","/","A">>,
      <<"n","/","a">>, <<"N","U","L","L">>, <<"n","u","l","l">>,
      <<"N","o","n","e">>, <<"<","N","A",">">>, <<"#","N","/","A">>,
      <<"#","N","A">>, <<"-","N","a","N">>, <<"-","n","a","n">> }

\* pd.read_csv on one cell
ReadCell(s) == IF s \in NAValues THEN NaN ELSE s

\* DataFrame.to_csv on one cell: nan is written as the empty field
WriteCell(c) == IF c = NaN THEN <<>> ELSE c

\* The f-string's str() of a cell
Fmt(c) == IF c = NaN THEN <<"n","a","n">> ELSE c

MapRow(r, F(_)) ==
    [title |-> F(r.title), published |-> F(r.published),
     raw_text_snippet |-> F(r.raw_text_snippet)]

ReadRows(rs) == [k \in 1..Len(rs) |-> MapRow(rs[k], ReadCell)]
WriteRows(rs) == [k \in 1..Len(rs) |-> MapRow(rs[k], WriteCell)]

\* load_existing_csv: no file, or a file read_csv raises on, gives the empty frame
load_existing_csv(f) ==
    IF f.exists /\ f.readable THEN ReadRows(f.rows) ELSE <<>>

\* save_csv: the file is rewritten in full
save_csv(df) == [exists |-> TRUE, readable |-> TRUE, rows |-> WriteRows(df)]

----------------------------------------------------------------------------
(* The configuration file. *)

KeywordLists == { <<>>, <<"crime">>, <<"crime", "roubo">> }

\* A JSON object is the set of its <<key, value>> members.
ConfigObjects ==
    { {<<"keywords", ks>>, <<"cities", <<"Patos">>>>} : ks \in KeywordLists }
    \cup { {<<"keywords", <<"crime">>>>}, {<<"cities", <<"Patos">>>>} }

\* keywords.json: absent, not JSON, or a JSON object.
ConfigFiles ==
    { [status |-> "missing", object |-> {}],
      [status |-> "unparseable", object |-> {}] }
    \cup { [status |-> "ok", object |-> o] : o \in ConfigObjects }

\* load_keywords with the exception swallowed and an empty object returned
load_keywords_Swallowed(f) ==
    [raised |-> FALSE, value |-> IF f.status = "ok" THEN f.object ELSE {}]

\* load_keywords: the object read, or the exception open() or json.load raises
load_keywords(f) ==
    IF f.status = "ok"
    THEN [raised |-> FALSE, value |-> f.object]
    ELSE [raised |-> TRUE, value |-> {}]

HasKey(o, key) == \E m \in o : m[1] = key

\* cfg.get(key, [])
CfgGet(o, key) ==
    IF HasKey(o, key) THEN (CHOOSE m \in o : m[1] = key)[2] ELSE <<>>

\* keywords = cfg.get("keywords", [])
keywords == CfgGet(cfg.object, "keywords")

----------------------------------------------------------------------------
(* Feed entries.  `page` is what extract_text_from_link returns for the    *)
(* entry's link: the stripped page text, or the empty str when the fetch   *)
(* failed or found no text.                                                *)

S_a == <<"a">>
S_a_ == <<"a", "_">>
S_b == <<"b">>
S__b == <<"_", "b">>
S_NA == <<"N", "A">>
S_x == <<"x">>
S_sp == <<" ">>
S_paraiba == <<"p","a","r","a","i","b","a">>
S_paraiba_acute == <<"p","a","r","a","í","b","a">>
S_Paraiba_acute == <<"P","a","r","a","í","b","a">>
S_PARAIBA_ACUTE == <<"P","A","R","A","Í","B","A">>
S_x_nl_paraiba == <<"x","\n"," ">> \o S_paraiba_acute \o <<"\n">>

Entry(t, p, s, g) == [title |-> t, published |-> p, summary |-> s, page |-> g]

Entries ==
    { Entry(S_a_, S_b, <<>>, S_paraiba),
      Entry(S_a, S__b, <<>>, S_paraiba),
      Entry(S_a, <<>>, <<>>, S_Paraiba_acute),
      Entry(S_PARAIBA_ACUTE, S_b, <<>>, S_NA),
      Entry(S_PARAIBA_ACUTE, S_b, S_sp, <<>>),
      Entry(S_a, S_b, S_x_nl_paraiba, <<>>),
      Entry(S_a, S_b, S_paraiba, S_x) }

RECURSIVE SeqsUpTo(_, _)
SeqsUpTo(S, n) ==
    IF n = 0 THEN { <<>> }
    ELSE LET shorter == SeqsUpTo(S, n - 1)
         IN  shorter \cup { Append(q, x) : q \in shorter, x \in S }

Feeds == SeqsUpTo(Entries, MaxFeedLen)

KeywordNames == {"crime", "roubo"}

\* fetch_rss_entries: what the feed service may answer for keyword kw
FeedAnswers(kw) == IF frozen THEN {upstream[kw]} ELSE Feeds

----------------------------------------------------------------------------
(* The per-entry steps of main. *)

\* key = f"{title}_{published}"
Key(t, p) == Fmt(t) \o <<"_">> \o Fmt(p)

\* seen_keys after the loop over existing.iterrows()
KeysOf(df) == { Key(df[k].title, df[k].published) : k \in 1..Len(df) }

\* ArticleText with the test of the fallback inverted: `if article_text:`
ArticleText_InvertedFallback(e) == IF e.page # <<>> THEN e.summary ELSE e.page

\* article_text after the fallback to the feed summary
ArticleText(e) == IF e.page = <<>> THEN e.summary ELSE e.page

\* lower = (title + " " + article_text).lower()
LowerText(e) == Lower(e.title \o <<" ">> \o ArticleText(e))

\* the negation of the test that discards an entry
MentionsRegion(lower) ==
    ~(~Contains(lower, S_paraiba_acute) /\ ~Contains(lower, S_paraiba))

\* Snippet without the final strip()
Snippet_NoStrip(text) == ReplaceNewlines(Take(text, SNIPPET_MAX))

\* (article_text[:800].replace("\n"," ")).strip()
Snippet(text) == Strip(ReplaceNewlines(Take(text, SNIPPET_MAX)))

\* row = {...}
BuildRow(e) ==
    [title |-> e.title, published |-> e.published,
     raw_text_snippet |-> Snippet(ArticleText(e))]



----------------------------------------------------------------------------
(* main(), one action per step between two calls to the outside. *)

NoFile == [exists |-> FALSE, readable |-> FALSE, rows |-> <<>>]
\* a file of zero bytes: read_csv raises EmptyDataError
EmptyFile == [exists |-> TRUE, readable |-> FALSE, rows |-> <<>>]

ClsIdle == clsText = <<>> /\ clsOut = "" /\ clsDone = FALSE
NamesIdle ==
    /\ words = <<>> /\ ni = 0 /\ nj = 0
    /\ name_parts = <<>> /\ names = {} /\ npc = "idle"
MainIdle ==
    /\ cfgFile = [status |-> "missing", object |-> {}]
    /\ store = NoFile /\ store0 = NoFile
    /\ pc = "off" /\ cfg = cfgFile
    /\ existing = <<>> /\ rows = <<>> /\ seen_keys = {}
    /\ kwi = 1 /\ entries = <<>>
    /\ frozen = FALSE /\ upstream = [kw \in KeywordNames |-> <<>>]
    /\ runs = 0
    /\ fetchedFeed = FALSE /\ fetchedPage = FALSE /\ wrote = FALSE

InitMain ==
    /\ cfgFile \in ConfigFiles
    /\ store \in {NoFile, EmptyFile}
    /\ store0 = store
    /\ pc = "idle"
    /\ cfg = cfgFile
    /\ existing = <<>> /\ rows = <<>> /\ seen_keys = {}
    /\ kwi = 1 /\ entries = <<>>
    /\ runs = 0
    /\ fetchedFeed = FALSE /\ fetchedPage = FALSE /\ wrote = FALSE
    /\ ClsIdle /\ NamesIdle

Init ==
    /\ InitMain
    /\ frozen = FALSE
    /\ upstream = [kw \in KeywordNames |-> <<>>]

\* cfg = load_keywords() ... the loop that fills seen_keys
Start ==
    /\ pc \in {"idle", "aborted"}
    /\ runs < MaxRuns
    /\ runs' = runs + 1
    /\ cfg' = [status |-> cfgFile.status, object |-> load_keywords(cfgFile).value]
    /\ store0' = store
    /\ fetchedFeed' = FALSE /\ fetchedPage' = FALSE /\ wrote' = FALSE
    /\ rows' = <<>>
    /\ kwi' = 1
    /\ entries' = <<>>
    /\ IF load_keywords(cfgFile).raised
       THEN /\ pc' = "aborted"
            /\ existing' = <<>>
            /\ seen_keys' = {}
       ELSE /\ pc' = "kw"
            /\ existing' = load_existing_csv(store)
            /\ seen_keys' = KeysOf(existing')
    /\ UNCHANGED <<cfgFile, store, frozen, upstream, clsVars, nameVars>>

\* rss = build_google_news_rss(kw); entries = fetch_rss_entries(rss)[:SEARCH_TOP]
FetchFeed ==
    /\ pc = "kw"
    /\ kwi <= Len(keywords)
    /\ \E f \in FeedAnswers(keywords[kwi]) : entries' = Take(f, SEARCH_TOP)
    /\ fetchedFeed' = TRUE
    /\ pc' = "entry"
    /\ UNCHANGED <<cfgFile, store, cfg, existing, rows, seen_keys, kwi, frozen,
                   upstream, runs, store0, fetchedPage, wrote,
                   clsVars, nameVars>>

\* if key in seen_keys: continue
SkipDuplicate ==
    /\ pc = "entry"
    /\ entries # <<>>
    /\ Key(Head(entries).title, Head(entries).published) \in seen_keys
    /\ entries' = Tail(entries)
    /\ UNCHANGED <<cfgFile, store, pc, cfg, existing, rows, seen_keys, kwi, frozen,
                   upstream, runs, store0, fetchedFeed, fetchedPage, wrote,
                   clsVars, nameVars>>

\* the page is fetched, the text does not mention Paraíba: continue
DiscardEntry ==
    /\ pc = "entry"
    /\ entries # <<>>
    /\ Key(Head(entries).title, Head(entries).published) \notin seen_keys
    /\ fetchedPage' = TRUE
    /\ ~MentionsRegion(LowerText(Head(entries)))
    /\ entries' = Tail(entries)
    /\ UNCHANGED <<cfgFile, store, pc, cfg, existing, rows, seen_keys, kwi, frozen,
                   upstream, runs, store0, fetchedFeed, wrote,
                   clsVars, nameVars>>

\* the page is fetched, the row is built: rows.append(row); seen_keys.add(key)
AcceptEntry ==
    /\ pc = "entry"
    /\ entries # <<>>
    /\ Key(Head(entries).title, Head(entries).published) \notin seen_keys
    /\ fetchedPage' = TRUE
    /\ MentionsRegion(LowerText(Head(entries)))
    /\ rows' = Append(rows, BuildRow(Head(entries)))
    /\ seen_keys' =
           seen_keys \cup {Key(Head(entries).title, Head(entries).published)}
    /\ entries' = Tail(entries)
    /\ UNCHANGED <<cfgFile, store, pc, cfg, existing, kwi, frozen,
                   upstream, runs, store0, fetchedFeed, wrote,
                   clsVars, nameVars>>

\* the `for e in entries` loop is over: next kw
NextKeyword ==
    /\ pc = "entry"
    /\ entries = <<>>
    /\ kwi' = kwi + 1
    /\ pc' = "kw"
    /\ UNCHANGED <<cfgFile, store, cfg, existing, rows, seen_keys, entries, frozen,
                   upstream, runs, store0, fetchedFeed, fetchedPage, wrote,
                   clsVars, nameVars>>

\* df_final without the concat: the new rows alone
df_final_NewRowsOnly == rows

\* df_final: pd.concat([existing, new_df]) when existing is not empty, else new_df
df_final == IF existing # <<>> THEN existing \o rows ELSE rows

\* if not df_final.empty: save_csv(df_final, OUTPUT_CSV)
Commit ==
    /\ pc = "kw"
    /\ kwi > Len(keywords)
    /\ IF df_final # <<>>
       THEN /\ store' = save_csv(df_final)
            /\ wrote' = TRUE
       ELSE UNCHANGED <<store, wrote>>
    /\ pc' = "idle"
    /\ UNCHANGED <<cfgFile, cfg, existing, rows, seen_keys, kwi, entries, frozen,
                   upstream, runs, store0, fetchedFeed, fetchedPage,
                   clsVars, nameVars>>

Main ==
    \/ Start
    \/ FetchFeed
    \/ SkipDuplicate
    \/ DiscardEntry
    \/ AcceptEntry
    \/ NextKeyword
    \/ Commit

(* What happens to the configuration file between runs. *)

\* keywords.json is edited, removed or broken
EditConfig ==
    /\ pc \in {"idle", "aborted"}
    /\ runs < MaxRuns
    /\ \E c \in ConfigFiles \ {cfgFile} : cfgFile' = c
    /\ UNCHANGED <<store, pc, cfg, existing, rows, seen_keys, kwi, entries, frozen,
                   upstream, runs, store0, fetchedFeed, fetchedPage, wrote,
                   clsVars, nameVars>>

Next == Main \/ EditConfig

Spec == Init /\ [][Next]_vars

(* The same program against a feed service that answers the same in every  *)
(* run, with nothing else touching the two files.                          *)

InitIdem ==
    /\ InitMain
    /\ frozen = TRUE
    /\ upstream \in [KeywordNames -> Feeds]

SpecIdem == InitIdem /\ [][Main]_vars

----------------------------------------------------------------------------
(* Properties of the pipeline. *)

SamePair(r, t, p) == r.title = t /\ r.published = p

NoDupPairs(rs) ==
    \A a, b \in 1..Len(rs) :
        a # b => ~SamePair(rs[a], rs[b].title, rs[b].published)

IsPrefix(p, q) == Len(p) <= Len(q) /\ SubSeq(q, 1, Len(p)) = p

Last(q) == q[Len(q)]

\* The step of main that handles the entry at the head of `entries`.
EntryStep == pc = "entry" /\ entries # <<>> /\ entries' = Tail(entries)

\* C1: over consecutive runs from an empty or absent store, the persisted
\* store never holds two rows with the same (title, published) pair, and the
\* rows one run adds never hold two such rows either.
C1_NoDuplicateIdentity == NoDupPairs(store.rows) /\ NoDupPairs(rows)

\* C2: against an upstream and a configuration that do not change, every run
\* after the first accepts no row and leaves the store with the rows it had.
C2_SecondRunAddsNothing ==
    runs >= 2 =>
        /\ rows = <<>>
        /\ pc = "idle" => store.rows = store0.rows

\* C3: no step of a run rewrites or deletes a persisted row: the rows the
\* store held stay, unchanged and in order, ahead of the rows that are added.
C3_AppendOnly == [][IsPrefix(store.rows, store'.rows)]_vars

\* The test of C4 as the claim words it: the lowercased title, a space and
\* the resolved text (the fetched text, or the feed summary when the fetched
\* text is empty) contain "paraíba" or "paraiba".
ResolvedText(e) == IF e.page # <<>> THEN e.page ELSE e.summary
PassesRegionTest(e) ==
    LET hay == Lower(e.title \o <<" ">> \o ResolvedText(e))
    IN  Contains(hay, S_paraiba_acute) \/ Contains(hay, S_paraiba)

\* C4: a step that adds a row or a seen key handles an entry that passes
\* the region test; an entry that fails it adds neither.
C4_RegionFilter ==
    [][(EntryStep /\ (rows' # rows \/ seen_keys' # seen_keys))
          => PassesRegionTest(Head(entries))]_vars

\* C4's case: a row was accepted for its text, its title not naming the region.
C4_Witness ==
    /\ pc = "entry"
    /\ rows # <<>>
    /\ ~Contains(Lower(Last(rows).title), S_paraiba_acute)
    /\ ~Contains(Lower(Last(rows).title), S_paraiba)

\* The step that accepts an entry whose page fetch gave nothing and whose
\* feed summary is not empty.
AcceptsFallback ==
    /\ EntryStep
    /\ rows' # rows
    /\ Head(entries).page = <<>>
    /\ Head(entries).summary # <<>>

Blank(s) == \A k \in 1..Len(s) : IsSpace(s[k])

\* t is s without the whitespace at its two ends.
IsStripOf(t, s) ==
    /\ t = <<>> \/ (~IsSpace(t[1]) /\ ~IsSpace(t[Len(t)]))
    /\ \E a, b \in 0..Len(s) :
           /\ a + Len(t) + b = Len(s)
           /\ SubSeq(s, a + 1, a + Len(t)) = t
           /\ Blank(SubSeq(s, 1, a))
           /\ Blank(SubSeq(s, Len(s) - b + 1, Len(s)))

\* C5 as claimed: the row of an entry accepted on its feed summary has a
\* raw_text_snippet that is not empty.
C5_FallbackSnippetNotEmpty ==
    [][AcceptsFallback => Last(rows').raw_text_snippet # <<>>]_vars

\* C5 as amended: the row of an entry accepted on its feed summary has as
\* raw_text_snippet the first 800 characters of the summary, newlines turned
\* into spaces, stripped; it is empty exactly when those characters are blank.
C5_FallbackSnippetFromSummary ==
    [][AcceptsFallback =>
          LET cut == Take(Head(entries).summary, 800)
              flat == [k \in 1..Len(cut) |-> IF cut[k] = "\n" THEN " " ELSE cut[k]]
              sn == Last(rows').raw_text_snippet
          IN  /\ IsStripOf(sn, flat)
              /\ sn = <<>> <=> Blank(cut)]_vars

\* C5's case: a row whose snippet is the summary "x\n paraíba\n", flattened
\* and stripped.
C5_Witness ==
    \E k \in 1..Len(rows) :
        rows[k].raw_text_snippet = <<"x", " ", " ">> \o S_paraiba_acute

\* The configurations C6 calls fatal.
ClaimedFatal(c) ==
    \/ c.status # "ok"
    \/ ~HasKey(c.object, "keywords")
    \/ ~HasKey(c.object, "cities")

RunTouchedNothing ==
    /\ ~fetchedFeed /\ ~fetchedPage /\ ~wrote
    /\ store = store0

\* C6 as claimed: a run that meets a configuration that is missing,
\* unparseable or without `keywords` or `cities` fetches nothing, writes
\* nothing and leaves the store as it was.
C6_FatalConfigAsClaimed ==
    (runs > 0 /\ ClaimedFatal(cfg)) => RunTouchedNothing

\* C6 as amended: a run that meets a missing or unparseable configuration
\* aborts, having fetched nothing and written nothing, the store as it was.
C6_FatalConfig ==
    (runs > 0 /\ cfg.status # "ok") => (pc = "aborted" /\ RunTouchedNothing)

\* C6's case: a run aborted on its configuration while the store held rows.
C6_Witness == pc = "aborted" /\ store.rows # <<>> /\ cfg.status = "missing"

\* C7 as claimed: a run writes the store only if it accepted a row.
C7_WriteOnlyIfNewRow == wrote => rows # <<>>

\* C7 as amended: a run writes the store only if the rows it loaded and the
\* rows it accepted are not all empty, and a completed run wrote exactly in
\* that case; a run that did not write left the store as it was.
C7_WriteIffCombinedNonEmpty ==
    /\ wrote => (existing # <<>> \/ rows # <<>>)
    /\ (pc = "idle" /\ runs > 0) => (wrote <=> (existing # <<>> \/ rows # <<>>))
    /\ ~wrote => store = store0

\* C7's case: a completed run that accepted no row and rewrote the store.
C7_Witness == pc = "idle" /\ wrote /\ rows = <<>> /\ existing # <<>>

\* C10: an entry that passes the region test is left out as a duplicate only
\* if a persisted row, or a row accepted earlier in the run, has its title
\* and its published value.
C10_SkipOnlySamePair ==
    [][(EntryStep /\ rows' = rows /\ PassesRegionTest(Head(entries)))
          => \/ \E k \in 1..Len(store.rows) :
                    SamePair(store.rows[k], Head(entries).title,
                             Head(entries).published)
             \/ \E k \in 1..Len(rows) :
                    SamePair(rows[k], Head(entries).title,
                             Head(entries).published)]_vars

----------------------------------------------------------------------------
(* classify_by_keywords *)

HomicideTriggers ==
    { <<"h","o","m","i","c","i","d">>, <<"m","o","r","t","e">>, <<"a","s","s","a","s","s","i","n">> }
TraffickingTriggers ==
    { <<"t","r","á","f","i","c","o">>, <<"t","r","a","f","i","c">>, <<"d","r","o","g","a">> }
PoliceTriggers ==
    { <<"o","p","e","r","a","ç","ã","o"," ","p","o","l","i","c","i","a","l">>,
      <<"o","p","e","r","a","ç","ã","o">>,
      <<"p","o","l","í","c","i","a">>,
      <<"p","o","l","i","c","i","a","l">> }
TheftTriggers ==
    { <<"r","o","u","b","o">>, <<"a","s","s","a","l","t","o">> }

\* classify_by_keywords without text.lower()
classify_by_keywords_NoLower(text) ==
    IF ContainsAny(text, HomicideTriggers) THEN "Homicídio"
    ELSE IF ContainsAny(text, TraffickingTriggers) THEN "Tráfico"
    ELSE IF ContainsAny(text, PoliceTriggers) THEN "Operação Policial"
    ELSE IF ContainsAny(text, TheftTriggers) THEN "Roubo"
    ELSE "Outro"

classify_by_keywords(text) ==
    LET txt == Lower(text)
    IN  IF ContainsAny(txt, HomicideTriggers) THEN "Homicídio"
        ELSE IF ContainsAny(txt, TraffickingTriggers) THEN "Tráfico"
        ELSE IF ContainsAny(txt, PoliceTriggers) THEN "Operação Policial"
        ELSE IF ContainsAny(txt, TheftTriggers) THEN "Roubo"
        ELSE "Outro"

\* The texts classify_by_keywords is tried on: up to MaxFrags fragments, each
\* a trigger or another word, in lower or upper case, joined by spaces.
Fragments ==
    LET base == HomicideTriggers \cup TraffickingTriggers \cup PoliceTriggers
                  \cup TheftTriggers \cup { <<"p","a","r","a","í","b","a">>, <<"x">> }
    IN  base \cup { Upper(f) : f \in base }

RECURSIVE Join(_)
\* " ".join(parts)
Join(parts) ==
    IF parts = <<>> THEN <<>>
    ELSE IF Len(parts) = 1 THEN parts[1]
    ELSE parts[1] \o <<" ">> \o Join(Tail(parts))

ClassifyTexts == { Join(fs) : fs \in SeqsUpTo(Fragments, MaxFrags) }

InitClassify ==
    /\ clsText \in ClassifyTexts
    /\ clsOut = ""
    /\ clsDone = FALSE
    /\ MainIdle /\ NamesIdle

\* tipo = classify_by_keywords(text, keywords)
Classify ==
    /\ ~clsDone
    /\ clsOut' = classify_by_keywords(clsText)
    /\ clsDone' = TRUE
    /\ UNCHANGED <<clsText, mainVars, nameVars>>

SpecClassify == InitClassify /\ [][Classify]_vars

Labels == {"Homicídio", "Tráfico", "Operação Policial", "Roubo", "Outro"}

\* The buckets in the order of the claim, each with its label.
Buckets ==
    << [label |-> "Homicídio", triggers |-> HomicideTriggers],
       [label |-> "Tráfico", triggers |-> TraffickingTriggers],
       [label |-> "Operação Policial", triggers |-> PoliceTriggers],
       [label |-> "Roubo", triggers |-> TheftTriggers] >>

Hits(text) ==
    { b \in 1..Len(Buckets) : ContainsAny(Lower(text), Buckets[b].triggers) }

FirstBucketLabel(text) ==
    IF Hits(text) = {} THEN "Outro"
    ELSE Buckets[CHOOSE b \in Hits(text) : \A c \in Hits(text) : b <= c].label

\* C8: classify_by_keywords returns one of the five labels, the label of the
\* first bucket in the order homicide, trafficking, police operation, theft
\* with a trigger in the lowercased text, Outro when there is none, and the
\* same label for the text in upper and in lower case.
C8_ClassifierFirstMatch ==
    clsDone =>
        /\ clsOut \in Labels
        /\ clsOut = FirstBucketLabel(clsText)
        /\ classify_by_keywords(Upper(clsText)) = clsOut
        /\ classify_by_keywords(Lower(clsText)) = clsOut

\* C8's case: a text in upper case with triggers of two buckets got the label
\* of the earlier bucket.
C8_Witness ==
    /\ clsDone
    /\ clsOut = "Tráfico"
    /\ ContainsAny(Lower(clsText), TheftTriggers)
    /\ clsText = Upper(clsText)

----------------------------------------------------------------------------
(* extract_names_heuristic *)

IsCased(c) == IsUpperChar(c) \/ IsLowerChar(c)

\* str.istitle()'s previous_is_cased when it reaches character k of w
PreviousIsCased(w, k) == IF k = 1 THEN FALSE ELSE IsCased(w[k - 1])

\* str.istitle(): there is a cased character, an uppercase character follows
\* only an uncased one and a lowercase character only a cased one
IsTitle(w) ==
    /\ \E k \in 1..Len(w) : IsCased(w[k])
    /\ \A k \in 1..Len(w) :
           /\ IsUpperChar(w[k]) => ~PreviousIsCased(w, k)
           /\ IsLowerChar(w[k]) => PreviousIsCased(w, k)

\* if w.istitle() and len(w) > 2
StartsName(w) == IsTitle(w) /\ Len(w) > 2

\* words[j].istitle()
ExtendsName(w) == IsTitle(w)

\* IsName with the bound off by one: len(name_parts) >= 1
IsName_AtLeastOne(parts) == Len(parts) >= 1

\* if len(name_parts) >= 2
IsName(parts) == Len(parts) >= 2

T_Ana == <<"A","n","a">>
T_Lee == <<"L","e","e">>
T_De == <<"D","e">>
T_de == <<"d","e">>
T_PB == <<"P","B">>
T_Rio_comma == <<"R","i","o",",">>

\* text.split() gives tokens without whitespace
Tokens == {T_Ana, T_Lee, T_De, T_de, T_PB, T_Rio_comma}

InitNames ==
    /\ words \in SeqsUpTo(Tokens, MaxWords)
    /\ ni = 0 /\ nj = 0
    /\ name_parts = <<>>
    /\ names = {}
    /\ npc = "outer"
    /\ MainIdle /\ ClsIdle

\* while i < len(words): the test of words[i]
NameOuter ==
    /\ npc = "outer"
    /\ ni < Len(words)
    /\ IF StartsName(words[ni + 1])
       THEN /\ name_parts' = <<words[ni + 1]>>
            /\ nj' = ni + 1
            /\ npc' = "inner"
            /\ UNCHANGED ni
       ELSE /\ ni' = ni + 1
            /\ UNCHANGED <<name_parts, nj, npc>>
    /\ UNCHANGED <<words, names, mainVars, clsVars>>

\* while j < len(words) and words[j].istitle(): one more part
NameExtend ==
    /\ npc = "inner"
    /\ nj < Len(words)
    /\ ExtendsName(words[nj + 1])
    /\ name_parts' = Append(name_parts, words[nj + 1])
    /\ nj' = nj + 1
    /\ UNCHANGED <<words, ni, names, npc, mainVars, clsVars>>

\* the inner loop is over: if len(name_parts) >= 2 ... else ...
NameClose ==
    /\ npc = "inner"
    /\ ~(nj < Len(words) /\ ExtendsName(words[nj + 1]))
    /\ IF IsName(name_parts)
       THEN /\ names' = names \cup {Join(name_parts)}
            /\ ni' = nj
       ELSE /\ ni' = ni + 1
            /\ UNCHANGED names
    /\ npc' = "outer"
    /\ UNCHANGED <<words, nj, name_parts, mainVars, clsVars>>

\* return list(names)
NameReturn ==
    /\ npc = "outer"
    /\ ~(ni < Len(words))
    /\ npc' = "done"
    /\ UNCHANGED <<words, ni, nj, name_parts, names, mainVars, clsVars>>

NextNames == NameOuter \/ NameExtend \/ NameClose \/ NameReturn

\* The function runs its steps one after the other until it returns.
SpecNames == InitNames /\ [][NextNames]_vars /\ WF_vars(NextNames)

\* n is the join of the tokens a..b of words.
IsRun(n, a, b) == a < b /\ n = Join(SubSeq(words, a, b))

\* C9 as claimed: every returned name is a run of two or more consecutive
\* tokens, each of them title-cased and longer than 2 characters.
C9_EveryTokenLong ==
    npc = "done" =>
        \A n \in names : \E a, b \in 1..Len(words) :
            /\ IsRun(n, a, b)
            /\ \A k \in a..b : IsTitle(words[k]) /\ Len(words[k]) > 2

\* C9 as amended: every returned name is a run of two or more consecutive
\* title-cased tokens, the first of them longer than 2 characters (the ones
\* after it may be shorter), and the scan reaches its return.
C9_NamesAreTitleRuns ==
    /\ [](npc = "done" =>
            \A n \in names : \E a, b \in 1..Len(words) :
                /\ IsRun(n, a, b)
                /\ \A k \in a..b : IsTitle(words[k])
                /\ Len(words[a]) > 2)
    /\ <>(npc = "done")

\* C9's case: the scan returned a name whose second token has 2 characters.
C9_Witness == npc = "done" /\ Join(<<T_Ana, T_De>>) \in names

=============================================================================
